---- MODULE Spec2Model ----
(***************************************************************************)
(* Batch task runner of the character-animation scripts.                   *)
(*                                                                         *)
(*   scripts/character-animator/animate_characters.py    ("v1")            *)
(*   scripts-2/character-animator/animate_characters.py  ("v2":            *)
(*       argparse, --force / --resume, skip-existing precheck)             *)
(*                                                                         *)
(* main() builds a list of tasks (process_image), submits every task to a  *)
(* ThreadPoolExecutor(max_workers), and counts the results in the          *)
(* as_completed loop.  animate_image is the per-item processing function.  *)
(***************************************************************************)
EXTENDS Integers, Sequences, FiniteSets, TLC

(***************************************************************************)
(* Bounds of the model.                                                    *)
(***************************************************************************)
MaxImages == 2      \* image files in the input folder
MaxSamples == 5     \* 'samples' of one animation type
MaxTasks == 5       \* tasks of one batch (Spec)
MaxWorkers == 2     \* max_concurrent / --threads
MaxTasks2 == 2      \* tasks of one batch (SpecRerun)
MaxFreshTasks == 1  \* the same, when every run gets a new batch_<timestamp>
MaxRuns == 2        \* invocations against one file system (SpecRerun)
MaxClock == 1       \* seconds of the batch_<timestamp> clock
MaxBatch == 4       \* tasks of one v1 batch (SpecRunners)
MaxFrames == 10     \* frames handed to create_sprite_sheet (SpecSprite)
MaxFiles == 3       \* files of a folder (SpecUpload, SpecFolder)

VARIABLES
    script,        \* "v1", "v2" (animate_characters.py) or "trim": the script running
    args,          \* command line and environment of the invocation
    pc,            \* position of main(): "start", "submit", "collect", "done"
    exit_code,     \* process exit code, -1 while main() is running
    error,         \* the error message main() printed, "none" if none
    images,        \* image files of the input path, in iteration order
    config,        \* the config dict
    output_base,   \* <<kind, stamp>> of the output folder
    all_tasks,     \* sequence of task dicts
    max_workers,   \* pool size
    submitted,     \* number of tasks handed to executor.submit so far
    status,        \* per task: "new", "queued", "running", "finished", "counted"
    outcome,       \* per task: how its animate_image call ended, "none" before
    executed,      \* per task: number of animate_image calls made for it
    touched,       \* per task: the call opened the destination for writing
    completed,     \* counter of main()
    failed,        \* counter of main()
    summary,       \* <<total, completed, failed>> once printed, else <<>>
    fs,            \* destination path -> "empty" | "partial" | "complete"
    clock,         \* wall clock in seconds
    run,           \* number of the current invocation
    prev,          \* the previous invocation: its folder and how it ended
    lines,         \* number of "Progress:" lines printed by the result loop
    last_line,     \* the last one: <<done, total, completed, failed>>
    hung,          \* the task whose external call never returns, 0 if none
    frames,        \* create_sprite_sheet: <<K, w, h>> of the frame list
    sheet,         \* create_sprite_sheet: what it returned and wrote
    trim_env,      \* trim_and_loop_video: mode and results of the ffmpeg calls
    trim_run       \* trim_and_loop_video: calls made, value returned, files left

vars == <<script, args, pc, exit_code, error, images, config, output_base,
          all_tasks, max_workers, submitted, status, outcome, executed,
          touched, completed, failed, summary, fs, clock, run, prev,
          lines, last_line, hung, frames, sheet, trim_env, trim_run>>

\* what the runner of animate_characters.py leaves alone
others == <<hung, frames, sheet, trim_env, trim_run>>

(***************************************************************************)
(* Paths.  An output folder is <<kind, stamp>>; a destination is           *)
(* <<kind, stamp, stem, anim_type, n>> for                                 *)
(* output_base / stem / anim_type / output_filename, where n = 0 stands    *)
(* for "<anim_type>.mp4" and n >= 1 for "<anim_type>_sample<n>.mp4".       *)
(***************************************************************************)
FolderFiles == << <<"notes", ".txt">>, <<"a", ".png">>, <<"b", ".JPG">>,
                 <<"c", ".jpeg">>, <<"d", ".png">> >>

image_extensions == {".png", ".jpg", ".jpeg"}

stem(file) == file[1]

suffix(file) == file[2]

\* str.lower() on the suffixes that occur
lower(s) == IF s = ".JPG" THEN ".jpg" ELSE s

\* [f for f in input_folder.iterdir() if f.suffix.lower() in image_extensions]
list_images(folder) ==
    SelectSeq(folder, LAMBDA f : lower(suffix(f)) \in image_extensions)

Exists(files, path) == path \in DOMAIN files

WriteFile(files, path, content) ==
    [q \in (DOMAIN files) \cup {path} |-> IF q = path THEN content ELSE files[q]]

NoFiles == [q \in {} |-> "complete"]

\* output_filename and output_path of process_image
output_path(base, image, anim_type, samples, sample_num) ==
    <<base[1], base[2], stem(image), anim_type,
      IF samples > 1 THEN sample_num ELSE 0>>

Task(base, image, anim_type, samples, sample_num) ==
    [image_path |-> image,
     animation_type |-> anim_type,
     sample_num |-> sample_num,
     use_last_frame |-> (anim_type # "death"),
     output_path |-> output_path(base, image, anim_type, samples, sample_num)]

(***************************************************************************)
(* process_image: the tasks of one image.  v1 builds one task per          *)
(* animation type and sample number; v2 skips a destination that exists    *)
(* unless force is set.                                                    *)
(***************************************************************************)
RECURSIVE process_image_v1_loop(_, _, _)
process_image_v1_loop(image, animations, base) ==
    IF animations = <<>> THEN <<>>
    ELSE LET anim == Head(animations)
         IN  [n \in 1..anim.samples |->
                 Task(base, image, anim.type, anim.samples, n)]
             \o process_image_v1_loop(image, Tail(animations), base)

process_image_v1(image, cfg, base) ==
    process_image_v1_loop(image, cfg.animations, base)

RECURSIVE process_image_loop(_, _, _, _, _)
process_image_loop(image, animations, base, force, files) ==
    IF animations = <<>> THEN <<>>
    ELSE LET anim == Head(animations)
             every == [n \in 1..anim.samples |->
                          Task(base, image, anim.type, anim.samples, n)]
         IN  SelectSeq(every,
                 LAMBDA t : ~(Exists(files, t.output_path) /\ ~force))
             \o process_image_loop(image, Tail(animations), base, force, files)

process_image_no_skip(image, cfg, base, force, files) ==
    process_image_loop(image, cfg.animations, base, TRUE, files)

process_image_ignores_force(image, cfg, base, force, files) ==
    process_image_loop(image, cfg.animations, base, FALSE, files)

process_image(image, cfg, base, force, files) ==
    process_image_loop(image, cfg.animations, base, force, files)

\* the "skipped" counter of process_image when it returns
RECURSIVE process_image_skipped(_, _, _, _, _)
process_image_skipped(image, animations, base, force, files) ==
    IF animations = <<>> THEN 0
    ELSE LET anim == Head(animations)
         IN  Cardinality({n \in 1..anim.samples :
                 Exists(files, output_path(base, image, anim.type,
                                           anim.samples, n)) /\ ~force})
             + process_image_skipped(image, Tail(animations), base, force, files)

\* for image_path in images: all_tasks.extend(process_image(...))
RECURSIVE collect_tasks_v1(_, _, _)
collect_tasks_v1(imgs, cfg, base) ==
    IF imgs = <<>> THEN <<>>
    ELSE process_image_v1(Head(imgs), cfg, base)
         \o collect_tasks_v1(Tail(imgs), cfg, base)

RECURSIVE collect_tasks(_, _, _, _, _)
collect_tasks(imgs, cfg, base, force, files) ==
    IF imgs = <<>> THEN <<>>
    ELSE process_image(Head(imgs), cfg, base, force, files)
         \o collect_tasks(Tail(imgs), cfg, base, force, files)

\* config.get('max_concurrent', 10); 0 stands for an absent key
DefaultMaxConcurrent == 10

get_max_concurrent(cfg) ==
    IF cfg.max_concurrent = 0 THEN DefaultMaxConcurrent ELSE cfg.max_concurrent

(***************************************************************************)
(* animate_image.  An outcome names where the call ended:                  *)
(*   ok           replicate.run returned, the file was written, True       *)
(*   api_error    opening the image or replicate.run raised, False         *)
(*   open_error   open(output_path, "wb") raised, False                    *)
(*   read_error   output.read() raised after the file was opened, False    *)
(*   write_error  file.write raised part-way, False                        *)
(*   raise        replicate.run raised and the print of the except         *)
(*                handler raised too: the exception leaves animate_image   *)
(***************************************************************************)
Outcomes == {"ok", "api_error", "open_error", "read_error", "write_error", "raise"}

\* what future.result() gives main()
Ret_uncaught(o) == IF o = "ok" THEN "True" ELSE "raise"

Ret(o) == IF o = "ok" THEN "True" ELSE IF o = "raise" THEN "raise" ELSE "False"

\* open(output_path, "wb") was reached and succeeded
OpensDestination(o) == o \in {"ok", "read_error", "write_error"}

\* the destination after a call that opened it
ContentAfter(o) ==
    IF o = "ok" THEN "complete" ELSE IF o = "read_error" THEN "empty" ELSE "partial"

animate_image_files(files, path, o) ==
    IF OpensDestination(o) THEN WriteFile(files, path, ContentAfter(o)) ELSE files

(***************************************************************************)
(* The worker pool and the result loop of main() (the same code in v1 and  *)
(* v2).                                                                    *)
(***************************************************************************)
N == Len(all_tasks)

Tasks == 1..N

Running == {i \in Tasks : status[i] = "running"}

Queued == {i \in Tasks : status[i] = "queued"}

\* the state main() sets up before the pool is created
fresh_pool(tasks) ==
    /\ all_tasks' = tasks
    /\ submitted' = 0
    /\ status' = [i \in 1..Len(tasks) |-> "new"]
    /\ outcome' = [i \in 1..Len(tasks) |-> "none"]
    /\ executed' = [i \in 1..Len(tasks) |-> 0]
    /\ touched' = [i \in 1..Len(tasks) |-> FALSE]
    /\ completed' = 0
    /\ failed' = 0
    /\ lines' = 0
    /\ last_line' = <<>>

\* executor.submit(animate_image, ...) for the next task of all_tasks; the
\* dict comprehension ends with the last task and main() enters as_completed
submit ==
    /\ pc = "submit"
    /\ submitted < N
    /\ submitted' = submitted + 1
    /\ status' = [status EXCEPT ![submitted + 1] = "queued"]
    /\ pc' = IF submitted + 1 = N THEN "collect" ELSE "submit"
    /\ UNCHANGED <<script, args, exit_code, error, images, config, output_base,
                   all_tasks, max_workers, outcome, executed, touched,
                   completed, failed, summary, fs, clock, run, prev,
                   lines, last_line>>
    /\ UNCHANGED others

\* a pool thread takes the oldest queued work item; the pool never has more
\* than max_workers threads
worker_limit_unbounded(n) == TRUE

worker_limit(n) == Cardinality(Running) < n

worker_take(i) ==
    /\ status[i] = "queued"
    /\ \A j \in Queued : i <= j
    /\ worker_limit(max_workers)
    /\ status' = [status EXCEPT ![i] = "running"]
    /\ executed' = [executed EXCEPT ![i] = @ + 1]
    /\ UNCHANGED <<script, args, pc, exit_code, error, images, config,
                   output_base, all_tasks, max_workers, submitted, outcome,
                   touched, completed, failed, summary, fs, clock, run, prev,
                   lines, last_line>>
    /\ UNCHANGED others

\* replicate.run has no timeout and nothing cancels a future: the call of
\* task i ends only if its external call returns
returns_or_times_out(i) == TRUE

returns(i) == i # hung

\* the call of animate_image for task i ends with outcome o
animate_image(i, o) ==
    /\ script \in {"v1", "v2"}
    /\ status[i] = "running"
    /\ returns(i)
    /\ status' = [status EXCEPT ![i] = "finished"]
    /\ outcome' = [outcome EXCEPT ![i] = o]
    /\ touched' = [touched EXCEPT ![i] = OpensDestination(o)]
    /\ fs' = animate_image_files(fs, all_tasks[i].output_path, o)
    /\ UNCHANGED <<script, args, pc, exit_code, error, images, config,
                   output_base, all_tasks, max_workers, submitted, executed,
                   completed, failed, summary, clock, run, prev,
                   lines, last_line>>
    /\ UNCHANGED others

\* the counters after future.result() gave r
count_completed_always(r, c) == c + 1

count_failed_no_except(r, f) == IF r = "False" THEN f + 1 ELSE f

count_completed_lost_update(r, c) ==
    IF r = "True" /\ Running = {} THEN c + 1 ELSE c

count_failed_always(r, f) == f + 1

count_completed(r, c) == IF r = "True" THEN c + 1 ELSE c

count_failed(r, f) == IF r = "True" THEN f ELSE f + 1

\* the "Progress: ..." lines one iteration of the result loop prints: one in
\* animate_characters.py, none in trim_and_loop.py
progress_lines_none(which) == 0

progress_lines(which) == IF which = "trim" THEN 0 ELSE 1

\* the result loop starts when the dict comprehension has submitted every task
as_completed_during_submit(p) == p \in {"submit", "collect"}

as_completed_entered(p) == p = "collect"

\* as_completed yields a future when its call has returned or raised
future_started(i) == status[i] \in {"running", "finished"}

future_done(i) == status[i] = "finished"

\* one iteration of "for future in as_completed(future_to_task)"
collect(i) ==
    /\ as_completed_entered(pc)
    /\ future_done(i)
    /\ status' = [status EXCEPT ![i] = "counted"]
    /\ completed' = count_completed(Ret(outcome[i]), completed)
    /\ failed' = count_failed(Ret(outcome[i]), failed)
    /\ lines' = lines + progress_lines(script)
    /\ last_line' = IF progress_lines(script) = 0 THEN last_line
                    ELSE <<completed' + failed', N, completed', failed'>>
    /\ UNCHANGED <<script, args, pc, exit_code, error, images, config,
                   output_base, all_tasks, max_workers, submitted, outcome,
                   executed, touched, summary, fs, clock, run, prev>>
    /\ UNCHANGED others

\* as_completed is exhausted: the with block ends, the summary is printed and
\* main() returns
loop_stops_at_failure == (\A i \in Tasks : status[i] = "counted") \/ failed > 0

loop_skips_unstarted == \A i \in Tasks : status[i] \in {"counted", "queued"}

loop_queue_drained == \A i \in Tasks : status[i] \in {"running", "finished", "counted"}

loop_exhausted == \A i \in Tasks : status[i] = "counted"

\* main() returns after the summary whatever the counters are: exit code 0
summary_exit_code_strict(f) == IF f > 0 THEN 1 ELSE 0

summary_exit_code(f) == 0

print_summary ==
    /\ pc = "collect"
    /\ loop_exhausted
    /\ summary' = <<N, completed, failed>>
    /\ pc' = "done"
    /\ exit_code' = summary_exit_code(failed)
    /\ UNCHANGED <<script, args, error, images, config, output_base,
                   all_tasks, max_workers, submitted, status, outcome,
                   executed, touched, completed, failed, fs, clock, run, prev,
                   lines, last_line>>
    /\ UNCHANGED others

\* main() ends before any pool exists
leave(code, message) ==
    /\ pc' = "done"
    /\ exit_code' = code
    /\ error' = message
    /\ UNCHANGED <<images, config, output_base, all_tasks, max_workers,
                   submitted, status, outcome, executed, touched, completed,
                   failed, summary, prev, lines, last_line>>

(***************************************************************************)
(* main() of v1 up to the creation of the pool.                            *)
(***************************************************************************)
main_v1 ==
    /\ pc = "start"
    /\ script = "v1"
    /\ UNCHANGED <<script, args, fs, clock, run>>
    /\ UNCHANGED others
    /\ IF ~args.argc_ok THEN leave(1, "usage")
       ELSE IF ~args.input_exists THEN leave(1, "input folder not found")
       ELSE IF ~args.config_exists THEN leave(1, "config file not found")
       ELSE IF list_images(args.folder) = <<>> THEN leave(1, "no images found")
       ELSE /\ config' = args.config_file
            /\ output_base' = <<"batch", clock>>
            /\ images' = list_images(args.folder)
            /\ fresh_pool(collect_tasks_v1(images', config', output_base'))
            /\ max_workers' = get_max_concurrent(config')
            /\ pc' = IF all_tasks' = <<>> THEN "collect" ELSE "submit"
            /\ UNCHANGED <<exit_code, error, summary, prev>>

(***************************************************************************)
(* main() of v2 up to the creation of the pool.  Every error path is a     *)
(* plain "return": the process ends with exit code 0.                      *)
(***************************************************************************)
\* the config dict built from the command line (no --config)
cli_config(a) ==
    [animations |-> [k \in 1..Len(a.animations) |->
                        [type |-> a.animations[k], samples |-> a.samples]],
     max_concurrent |-> a.threads]

\* the config dict loaded from --config, with the command-line overrides
file_config(a) ==
    [a.config_file EXCEPT
        !.max_concurrent = IF a.threads # 0 THEN a.threads ELSE @]

\* "Determine output base path"
output_base_v2(a, now) ==
    IF a.resume THEN <<"resume", 0>>
    ELSE IF a.input_is_dir THEN <<"batch", now>>
    ELSE <<"out", 0>>

\* "Get images to process"
images_v2(a) ==
    IF a.input_is_dir THEN list_images(a.folder)
    ELSE IF lower(suffix(a.input_file)) \in image_extensions
         THEN <<a.input_file>>
         ELSE <<>>

\* the exit code of a "return" out of main()
ReturnCode == 0

nothing_to_generate_runs_pool ==
    /\ pc' = "collect"
    /\ UNCHANGED <<exit_code, error, summary, prev>>

nothing_to_generate ==
    /\ pc' = "done"
    /\ exit_code' = ReturnCode
    /\ UNCHANGED <<error, summary, prev>>

main_v2 ==
    /\ pc = "start"
    /\ script = "v2"
    /\ UNCHANGED <<script, args, fs, clock, run>>
    /\ UNCHANGED others
    /\ IF ~args.input_exists THEN leave(ReturnCode, "input path not found")
       ELSE IF args.config_given /\ ~args.config_exists
            THEN leave(ReturnCode, "config file not found")
       ELSE IF ~args.config_given /\ args.animations = <<>>
            THEN leave(ReturnCode, "either --config or --animations")
       ELSE IF args.resume /\ ~args.resume_exists
            THEN leave(ReturnCode, "resume folder not found")
       ELSE IF images_v2(args) = <<>>
            THEN leave(ReturnCode, "no valid image")
       ELSE /\ config' = IF args.config_given THEN file_config(args)
                                              ELSE cli_config(args)
            /\ output_base' = output_base_v2(args, clock)
            /\ images' = images_v2(args)
            /\ fresh_pool(collect_tasks(images', config', output_base',
                                        args.force, fs))
            /\ max_workers' = get_max_concurrent(config')
            /\ IF all_tasks' = <<>>
               THEN nothing_to_generate
               ELSE /\ pc' = "submit"
                    /\ UNCHANGED <<exit_code, error, summary, prev>>

(***************************************************************************)
(* Inputs.                                                                 *)
(***************************************************************************)
Anim(type, samples) == [type |-> type, samples |-> samples]

\* the 'animations' of the config files of Spec: one sample, MaxSamples
\* samples, and two animation types
AnimConfigs ==
    {<<Anim("idle", 1)>>,
     <<Anim("idle", MaxSamples)>>,
     <<Anim("idle", 2), Anim("death", 2)>>}

ConfigFiles == [animations : AnimConfigs, max_concurrent : 0..MaxWorkers]

\* two image files of one stem
SameStemFolder == << <<"a", ".png">>, <<"a", ".jpg">> >>

\* the input folder holds notes.txt and up to MaxImages image files, or the
\* two files of one stem
InputFolders ==
    {SubSeq(FolderFiles, 1, k) : k \in 1..(MaxImages + 1)} \cup {SameStemFolder}

RECURSIVE total_samples(_)
total_samples(animations) ==
    IF animations = <<>> THEN 0
    ELSE Head(animations).samples + total_samples(Tail(animations))

ExpectedTasks(folder, cfg) ==
    Len(list_images(folder)) * total_samples(cfg.animations)

NoConfig == [animations |-> <<>>, max_concurrent |-> 0]

NoPrev == [base |-> <<"none", 0>>, ran |-> FALSE, all_ok |-> FALSE,
           failed_paths |-> {}]

\* no frame list, no sprite sheet
NoFrames == <<0, 0, 0>>

NoSheet == [returned |-> "none"]

\* trim_and_loop_video not called
NoEnv == [sprite_output |-> FALSE]

NoRun == [returned |-> "none"]

InitRun ==
    /\ pc = "start"
    /\ exit_code = -1
    /\ error = "none"
    /\ images = <<>>
    /\ config = NoConfig
    /\ output_base = <<"none", 0>>
    /\ all_tasks = <<>>
    /\ max_workers = 0
    /\ submitted = 0
    /\ status = <<>>
    /\ outcome = <<>>
    /\ executed = <<>>
    /\ touched = <<>>
    /\ completed = 0
    /\ failed = 0
    /\ summary = <<>>
    /\ lines = 0
    /\ last_line = <<>>
    /\ hung = 0

Args1 == [argc_ok : BOOLEAN, input_exists : BOOLEAN, config_exists : BOOLEAN,
          folder : InputFolders, config_file : ConfigFiles]

Init ==
    /\ script = "v1"
    /\ args \in {a \in Args1 : ExpectedTasks(a.folder, a.config_file) <= MaxTasks}
    /\ InitRun
    /\ trim_env = NoEnv
    /\ trim_run = NoRun
    /\ frames = NoFrames
    /\ sheet = NoSheet
    /\ fs = NoFiles
    /\ clock = 0
    /\ run = 1
    /\ prev = NoPrev

(***************************************************************************)
(* SpecRerun: v2 invoked up to MaxRuns times with the same command line    *)
(* against one file system.                                                *)
(***************************************************************************)
\* add_argument('--threads', type=int, default=2): args.threads when the
\* command line has no --threads
DefaultThreads == 2

Args2Default ==
    [input_exists |-> TRUE, input_is_dir |-> TRUE,
     input_file |-> FolderFiles[2], folder |-> SubSeq(FolderFiles, 1, 2),
     config_given |-> FALSE, config_exists |-> FALSE, config_file |-> NoConfig,
     animations |-> <<"idle">>, samples |-> 1,
     threads_given |-> FALSE, threads |-> DefaultThreads,
     force |-> FALSE, resume |-> FALSE, resume_exists |-> FALSE]

\* command lines that fail a precondition
BadArgs2 ==
    {[Args2Default EXCEPT !.input_exists = FALSE],
     [Args2Default EXCEPT !.config_given = TRUE],
     [Args2Default EXCEPT !.animations = <<>>],
     [Args2Default EXCEPT !.resume = TRUE],
     [Args2Default EXCEPT !.input_is_dir = FALSE, !.input_file = FolderFiles[1]],
     [Args2Default EXCEPT !.folder = SubSeq(FolderFiles, 1, 1)]}

\* where the animations come from: --animations/--samples, or --config
Sources2 ==
    {[Args2Default EXCEPT !.samples = 1],
     [Args2Default EXCEPT !.samples = 2, !.animations = <<"idle">>],
     [Args2Default EXCEPT !.config_given = TRUE, !.config_exists = TRUE,
                          !.animations = <<>>,
                          !.threads_given = TRUE, !.threads = 1,
                          !.config_file = [animations |-> <<Anim("idle", 1), Anim("death", 1)>>,
                                           max_concurrent |-> 0]],
     [Args2Default EXCEPT !.config_given = TRUE, !.config_exists = TRUE,
                          !.animations = <<>>,
                          !.config_file = [animations |-> <<Anim("idle", 1)>>,
                                           max_concurrent |-> 1]]}

GoodArgs2 ==
    {[src EXCEPT !.input_is_dir = (k > 0),
                 !.folder = SubSeq(FolderFiles, 1, k + 1),
                 !.force = f,
                 !.resume = r, !.resume_exists = r] :
        src \in Sources2, k \in 0..MaxImages, f \in BOOLEAN, r \in BOOLEAN}

ExpectedTasks2(a) ==
    Len(images_v2(a)) *
        total_samples((IF a.config_given THEN file_config(a) ELSE cli_config(a)).animations)

\* a batch that gets a new batch_<timestamp> folder in every run
FreshFolder(a) == a.input_is_dir /\ ~a.resume

Init2 ==
    /\ script = "v2"
    /\ args \in BadArgs2 \cup
           {a \in GoodArgs2 :
               ExpectedTasks2(a) <= IF FreshFolder(a) THEN MaxFreshTasks
                                                      ELSE MaxTasks2}
    /\ InitRun
    /\ trim_env = NoEnv
    /\ trim_run = NoRun
    /\ frames = NoFrames
    /\ sheet = NoSheet
    /\ fs = NoFiles
    /\ clock = 0
    /\ run = 1
    /\ prev = NoPrev

\* the same command line is run again, dt seconds later
rerun(dt) ==
    /\ pc = "done"
    /\ run < MaxRuns
    /\ clock + dt <= MaxClock
    /\ run' = run + 1
    /\ clock' = clock + dt
    /\ pc' = "start"
    /\ exit_code' = -1
    /\ error' = "none"
    /\ images' = <<>>
    /\ config' = NoConfig
    /\ output_base' = <<"none", 0>>
    /\ fresh_pool(<<>>)
    /\ max_workers' = 0
    /\ summary' = <<>>
    /\ prev' = [base |-> output_base,
                ran |-> (error = "none"),
                all_ok |-> (error = "none" /\ failed = 0),
                failed_paths |-> {all_tasks[i].output_path :
                                    i \in {j \in Tasks : outcome[j] # "ok"}}]
    /\ UNCHANGED <<script, args, fs>>
    /\ UNCHANGED others

Next2 ==
    \/ main_v2
    \/ submit
    \/ \E i \in Tasks : worker_take(i)
    \/ \E i \in Tasks : \E o \in Outcomes : animate_image(i, o)
    \/ \E i \in Tasks : collect(i)
    \/ print_summary
    \/ \E dt \in 0..1 : rerun(dt)

SpecRerun == Init2 /\ [][Next2]_vars

\* in Spec a call fails by a raised replicate.run; the failures of the save
\* step are in SpecRerun
Outcomes1 == {"ok", "api_error", "raise"}

Next ==
    \/ main_v1
    \/ submit
    \/ \E i \in Tasks : worker_take(i)
    \/ \E i \in Tasks : \E o \in Outcomes1 : animate_image(i, o)
    \/ \E i \in Tasks : collect(i)
    \/ print_summary

Spec == Init /\ [][Next]_vars

(***************************************************************************)
(* Properties of the runner (Spec).                                        *)
(***************************************************************************)
Counted == {i \in Tasks : status[i] = "counted"}

SummaryPrinted == summary # <<>>

\* C1: when the as_completed loop has finished, every one of the N submitted
\* tasks has been counted exactly once: N outcomes, completed + failed = N.
C1_EveryItemCounted ==
    SummaryPrinted =>
        /\ submitted = N
        /\ Cardinality(Counted) = N
        /\ completed + failed = N
        /\ summary = <<N, completed, failed>>

C1_Witness ==
    /\ SummaryPrinted
    /\ N >= 4
    /\ completed >= 1
    /\ failed >= 2

\* C2: an exception that leaves animate_image is counted as exactly one
\* failure at future.result(), main() still reaches its summary with exit
\* code 0, and with 5 tasks of which only the third raises the summary is
\* Total: 5 | Completed: 4 | Failed: 1.
OnlyThirdRaises ==
    /\ N = 5
    /\ \A i \in Tasks : outcome[i] = (IF i = 3 THEN "raise" ELSE "ok")

C2_RaiseIsOneFailure ==
    /\ failed = Cardinality({i \in Counted : Ret(outcome[i]) = "raise"})
                  + Cardinality({i \in Counted : Ret(outcome[i]) = "False"})
    /\ (\E i \in Tasks : outcome[i] = "raise") => exit_code \in {-1, 0}
    /\ (SummaryPrinted /\ OnlyThirdRaises) => summary = <<5, 4, 1>>

C2_Witness ==
    /\ SummaryPrinted
    /\ OnlyThirdRaises
    /\ exit_code = 0

\* C3: failures are isolated.  Whatever subset of the tasks failed, at the
\* summary every task has been executed once and counted by its own outcome;
\* and no step ever takes back or changes the outcome of a task or moves a
\* task backwards (a cancelled task would never run).
Rank(st) ==
    CASE st = "new" -> 0
      [] st = "queued" -> 1
      [] st = "running" -> 2
      [] st = "finished" -> 3
      [] st = "counted" -> 4

C3_AtSummary ==
    SummaryPrinted =>
        /\ \A i \in Tasks : executed[i] = 1 /\ outcome[i] \in Outcomes
        /\ completed = Cardinality({i \in Tasks : outcome[i] = "ok"})
        /\ failed = Cardinality({i \in Tasks : outcome[i] # "ok"})

C3_Step ==
    (pc \in {"submit", "collect"} /\ pc' # "start") =>
        \A i \in Tasks :
            /\ outcome[i] # "none" => outcome'[i] = outcome[i]
            /\ Rank(status'[i]) >= Rank(status[i])

C3_FailuresIsolated == []C3_AtSummary /\ [][C3_Step]_vars

C3_Witness ==
    /\ SummaryPrinted
    /\ N >= 4
    /\ outcome[1] = "raise"
    /\ outcome[2] = "api_error"
    /\ \A i \in Tasks : i > 2 => outcome[i] = "ok"

\* C4: at every moment at most max_workers calls of animate_image are in
\* progress.
C4_BoundedInFlight == Cardinality(Running) <= max_workers

C4_Witness ==
    /\ Cardinality(Running) = max_workers
    /\ max_workers = 2
    /\ Cardinality(Queued) >= 2

\* C5: with a pool at least as large as the batch (max_workers >= N >= 1) no
\* task is executed twice, and at the summary every task has been executed
\* exactly once and counted.
C5_LargePoolLosesNothing ==
    (N >= 1 /\ max_workers >= N) =>
        /\ \A i \in Tasks : executed[i] <= 1
        /\ SummaryPrinted =>
              /\ \A i \in Tasks : executed[i] = 1 /\ status[i] = "counted"
              /\ summary[2] + summary[3] = N

C5_Witness ==
    /\ SummaryPrinted
    /\ N = 2
    /\ max_workers = DefaultMaxConcurrent
    /\ \A i \in Tasks : executed[i] = 1

(***************************************************************************)
(* Properties of repeated invocations of v2 (SpecRerun).                   *)
(***************************************************************************)
\* main() is past task construction in a run that followed another one
Constructed == script = "v2" /\ run >= 2 /\ pc # "start" /\ error = "none"

TaskPaths == {all_tasks[i].output_path : i \in Tasks}

\* every destination of the batch: one per image, animation type and sample
RECURSIVE AnimDestinations(_, _, _)
AnimDestinations(image, animations, base) ==
    IF animations = <<>> THEN {}
    ELSE LET anim == Head(animations)
         IN  {output_path(base, image, anim.type, anim.samples, n) :
                  n \in 1..anim.samples}
             \cup AnimDestinations(image, Tail(animations), base)

Destinations ==
    UNION {AnimDestinations(images[k], config.animations, output_base) :
               k \in 1..Len(images)}

\* C6 as claimed: without --force, the run after a run in which every task
\* succeeded constructs no task.
C6_RerunBuildsNothing ==
    (Constructed /\ ~args.force /\ prev.ran /\ prev.all_ok) => N = 0

\* C6 amended: the same, when the second run uses the output folder of the
\* first (a single image file as input, or --resume): then every destination
\* holds a file and no task is constructed.
C6_RerunSameFolderBuildsNothing ==
    (Constructed /\ ~args.force /\ prev.ran /\ prev.all_ok
        /\ output_base = prev.base)
    => /\ N = 0
       /\ \A d \in Destinations : Exists(fs, d)
       /\ ~SummaryPrinted

C6_Witness ==
    /\ Constructed
    /\ ~args.force
    /\ prev.ran /\ prev.all_ok /\ prev.failed_paths = {}
    /\ output_base = prev.base
    /\ pc = "done"
    /\ N = 0
    /\ Cardinality(Destinations) = 2
    /\ \A d \in Destinations : Exists(fs, d) /\ fs[d] = "complete"

\* C7: with --force task construction yields exactly one task per image,
\* animation type and sample number, whatever files the output folder holds:
\* the tasks are those an empty folder would give.
C7_ForceBuildsAll ==
    (script = "v2" /\ pc # "start" /\ error = "none" /\ args.force) =>
        /\ N = ExpectedTasks2(args)
        /\ TaskPaths = Destinations
        /\ Cardinality(TaskPaths) = N
        /\ all_tasks = collect_tasks(images, config, output_base, TRUE, NoFiles)

C7_Witness ==
    /\ Constructed
    /\ args.force
    /\ pc = "submit"
    /\ submitted = 0
    /\ N = 2
    /\ \A d \in Destinations : Exists(fs, d)
    /\ \E d \in Destinations : fs[d] = "complete"
    /\ \E d \in Destinations : fs[d] = "partial"

\* C8 as claimed: in the run after a run with failures, against the same
\* output folder and without --force, every destination whose task failed
\* gets a task again; and when that run has no failure, every destination
\* holds a completely written file.
C8_FailedDestinationRetried ==
    (Constructed /\ ~args.force /\ prev.ran /\ output_base = prev.base) =>
        /\ prev.failed_paths \subseteq TaskPaths
        /\ (pc = "done" /\ failed = 0) =>
              \A d \in Destinations : Exists(fs, d) /\ fs[d] = "complete"

\* C9 as claimed: a call of animate_image that returned False has left no
\* file at its destination.
C9_FailureLeavesNoFile ==
    \A i \in Tasks :
        (status[i] \in {"finished", "counted"} /\ Ret(outcome[i]) = "False") =>
            ~(touched[i] /\ Exists(fs, all_tasks[i].output_path))

\* C10 as claimed: a missing input path or config file ends the process with
\* exit code 1, an error printed, and no task constructed or executed.
PreconditionMissing ==
    \/ ~args.input_exists
    \/ script = "v1" /\ ~args.config_exists
    \/ script = "v2" /\ args.config_given /\ ~args.config_exists

C10_MissingInputExitsOne ==
    (pc = "done" /\ PreconditionMissing) =>
        /\ exit_code = 1
        /\ error # "none"
        /\ N = 0
        /\ submitted = 0

(***************************************************************************)
(* trim_and_loop.py.  A file below the input folder is its directories,    *)
(* stem and suffix; a path below the output folder is its directories and  *)
(* a file name <<prefix, stem, suffix>>, so that "temp_trimmed_idle.mp4"   *)
(* is <<"temp_trimmed_", "idle", ".mp4">>.                                 *)
(***************************************************************************)
Video(dirs, name, ext) == [dirs |-> dirs, stem |-> name, suffix |-> ext]

video_extensions == {".mp4", ".mov", ".avi", ".mkv"}

\* [f for f in input_folder.rglob('*') if f.suffix.lower() in video_extensions]
list_videos(tree) ==
    SelectSeq(tree, LAMBDA f : lower(f.suffix) \in video_extensions)

\* the character folder of a sprite sheet
character_name(video, folder_name) ==
    IF Len(video.dirs) + 1 >= 3 THEN video.dirs[1]
    ELSE IF Len(video.dirs) + 1 >= 2 THEN folder_name
    ELSE "unknown"

\* output_path of one video: flattened to character_name / stem for sprite
\* sheets, the relative path of the video otherwise
trim_output_path(video, sprites, folder_name) ==
    IF sprites
    THEN [dir |-> <<character_name(video, folder_name)>>,
          file |-> <<"", video.stem, "">>]
    ELSE [dir |-> video.dirs, file |-> <<"", video.stem, video.suffix>>]

WorkItem(video, sprites, folder_name) ==
    [video |-> video,
     output_path |-> trim_output_path(video, sprites, folder_name),
     sprite_output |-> sprites]

work_items(videos, sprites, folder_name) ==
    [k \in 1..Len(videos) |-> WorkItem(videos[k], sprites, folder_name)]

\* args.workers if args.workers else multiprocessing.cpu_count()
num_workers(a) == IF a.workers # 0 THEN a.workers ELSE a.cpu_count

\* the paths trim_and_loop_video works on
temp_trimmed(item) ==
    [dir |-> item.output_path.dir,
     file |-> <<"temp_trimmed_", item.output_path.file[2], ".mp4">>]

frames_dir(item) ==
    [dir |-> item.output_path.dir,
     file |-> <<"frames_", item.output_path.file[2], "">>]

with_suffix(path, ext) == [path EXCEPT !.file[3] = ext]

base_png_path(item) ==
    [dir |-> item.output_path.dir, file |-> <<"", "base", ".png">>]

item_paths(item) ==
    IF item.sprite_output
    THEN {temp_trimmed(item), frames_dir(item),
          with_suffix(item.output_path, ".png"),
          with_suffix(item.output_path, ".json"), base_png_path(item)}
    ELSE {temp_trimmed(item), item.output_path}

(***************************************************************************)
(* trim_and_loop_video.  An outcome names where the call ended:            *)
(*   ok           every step succeeded, the temporary files are removed    *)
(*   exception    the first ffmpeg call raised (caught: False)             *)
(*   trim_failed  both trim attempts ended with a non-zero code: False     *)
(*   step_failed  the frame extraction or the loop step failed after the   *)
(*                trim: False, returned before the clean-up                *)
(*   raise        the print of the except handler raised too               *)
(***************************************************************************)
TrimOutcomes == {"ok", "exception", "trim_failed", "step_failed", "raise"}

WriteFiles(files, paths, content) ==
    [q \in (DOMAIN files) \cup paths |->
        IF q \in paths THEN content ELSE files[q]]

trim_files(files, item, o) ==
    IF o = "ok"
    THEN WriteFiles(files,
                    item_paths(item) \ {temp_trimmed(item), frames_dir(item)},
                    "complete")
    ELSE IF o = "step_failed"
    THEN WriteFiles(files,
                    item_paths(item) \cap {temp_trimmed(item), frames_dir(item)},
                    "complete")
    ELSE files

\* the call of trim_and_loop_video for work item i ends with outcome o
trim_and_loop_video(i, o) ==
    /\ script = "trim"
    /\ status[i] = "running"
    /\ returns(i)
    /\ status' = [status EXCEPT ![i] = "finished"]
    /\ outcome' = [outcome EXCEPT ![i] = o]
    /\ touched' = [touched EXCEPT ![i] = (o \in {"ok", "step_failed"})]
    /\ fs' = trim_files(fs, all_tasks[i], o)
    /\ UNCHANGED <<script, args, pc, exit_code, error, images, config,
                   output_base, all_tasks, max_workers, submitted, executed,
                   completed, failed, summary, clock, run, prev,
                   lines, last_line>>
    /\ UNCHANGED others

\* main() of trim_and_loop.py up to the creation of the pool
main_trim ==
    /\ pc = "start"
    /\ script = "trim"
    /\ UNCHANGED <<script, args, fs, clock, run>>
    /\ UNCHANGED others
    /\ IF ~args.input_exists THEN leave(1, "folder not found")
       ELSE IF list_videos(args.tree) = <<>> THEN leave(1, "no videos found")
       ELSE /\ config' = NoConfig
            /\ output_base' = <<IF args.sprites THEN "character-sprites"
                                                ELSE "looped", 0>>
            /\ images' = list_videos(args.tree)
            /\ fresh_pool(work_items(images', args.sprites, args.folder_name))
            /\ max_workers' = num_workers(args)
            /\ pc' = "submit"
            /\ UNCHANGED <<exit_code, error, summary, prev>>

(***************************************************************************)
(* SpecRunners: one invocation of trim_and_loop.py or of                   *)
(* animate_characters.py (v1) on a small batch.                            *)
(***************************************************************************)
VideoTrees ==
    {<< Video(<<"doctor">>, "notes", ".txt") >>,
     << Video(<<"doctor", "idle">>, "idle", ".mp4") >>,
     << Video(<<"doctor", "idle">>, "idle", ".mp4"),
        Video(<<"doctor", "attack">>, "attack", ".mp4") >>,
     << Video(<<"doctor", "idle">>, "idle", ".mp4"),
        Video(<<"nurse", "idle">>, "idle", ".mp4") >>,
     << Video(<<"idle">>, "idle", ".mp4"),
        Video(<<"idle">>, "idle", ".mov"),
        Video(<<>>, "clip", ".mp4") >>}

ArgsTrim ==
    [input_exists : BOOLEAN, tree : VideoTrees, folder_name : {"batch"},
     sprites : BOOLEAN, workers : 0..MaxWorkers, cpu_count : {MaxWorkers}]

InitRunners ==
    /\ \/ /\ script = "trim"
          /\ args \in ArgsTrim
       \/ /\ script = "v1"
          /\ args \in {a \in Args1 :
                          ExpectedTasks(a.folder, a.config_file) <= MaxBatch}
    /\ InitRun
    /\ trim_env = NoEnv
    /\ trim_run = NoRun
    /\ frames = NoFrames
    /\ sheet = NoSheet
    /\ fs = NoFiles
    /\ clock = 0
    /\ run = 1
    /\ prev = NoPrev

NextRunners ==
    \/ main_trim
    \/ main_v1
    \/ submit
    \/ \E i \in Tasks : worker_take(i)
    \/ \E i \in Tasks : \E o \in TrimOutcomes : trim_and_loop_video(i, o)
    \/ \E i \in Tasks : \E o \in Outcomes : animate_image(i, o)
    \/ \E i \in Tasks : collect(i)
    \/ print_summary

SpecRunners == InitRunners /\ [][NextRunners]_vars

(***************************************************************************)
(* Further properties of the runner (Spec).                                *)
(***************************************************************************)
\* C18: a result is counted (and its progress line printed) only when all N
\* tasks have been submitted, and whenever a task is queued and a worker
\* slot is free a worker can take it, whatever the result loop is doing.
C18_SubmitAllThenCount ==
    /\ (Counted # {} \/ lines > 0) => submitted = N
    /\ (Queued # {} /\ Cardinality(Running) < max_workers)
           => ENABLED (\E i \in Tasks : worker_take(i))

\* a result waits to be counted, another is counted, and a queued task has
\* a free slot
C18_Witness ==
    /\ pc = "collect"
    /\ Counted # {}
    /\ \E i \in Tasks : status[i] = "finished"
    /\ Queued # {}
    /\ Cardinality(Running) < max_workers
    /\ ENABLED (\E i \in Tasks : worker_take(i))

\* C19: a task is counted and reported only after its call of animate_image
\* has ended, one progress line per counted task; the order of counting is
\* the order of completion (the witness is a run that counts the second
\* task while the first is still running).
C19_ReportedAfterReturn ==
    /\ \A i \in Counted : outcome[i] # "none" /\ executed[i] = 1
    /\ lines = Cardinality(Counted)
    /\ lines > 0 => last_line[1] = Cardinality(Counted)

\* two or more workers: the second task submitted is counted and reported,
\* the first is still running
C19_Witness ==
    /\ max_workers >= 2
    /\ N >= 2
    /\ status[2] = "counted"
    /\ status[1] = "running"
    /\ lines = 1
    /\ last_line[1] = 1

\* C14: the tasks main() of animate_characters.py builds from the input
\* images, animation types and sample numbers have pairwise distinct
\* destination paths.
C14_DistinctDestinations ==
    (script = "v1" /\ pc # "start" /\ error = "none") =>
        \A i, j \in Tasks :
            i # j => all_tasks[i].output_path # all_tasks[j].output_path

(***************************************************************************)
(* Properties of the runners (SpecRunners).                                *)
(***************************************************************************)
\* C11: a batch that reaches its final summary ends with exit code 0
\* whatever the number of failed items, in animate_characters.py and in
\* trim_and_loop.py alike.
C11_FailuresKeepExitCode ==
    SummaryPrinted => (pc = "done" /\ exit_code = 0)

\* a trim_and_loop.py batch of two or more videos, all of them failed
C11_Witness ==
    /\ script = "trim"
    /\ SummaryPrinted
    /\ N >= 2
    /\ failed = N
    /\ exit_code = 0

\* C15: in trim_and_loop.py no two work items that are in flight together
\* write, create or delete the same path: output, temp_trimmed_<stem>.mp4,
\* frames_<stem>/ and base.png each belong to at most one in-flight item.
C15_NoSharedPath ==
    script = "trim" =>
        \A i, j \in Running :
            i # j => item_paths(all_tasks[i]) \cap item_paths(all_tasks[j]) = {}

\* the counts the outcomes of the tasks determine
FinalCounts(outs) ==
    <<Cardinality({i \in DOMAIN outs : Ret(outs[i]) = "True"}),
      Cardinality({i \in DOMAIN outs : Ret(outs[i]) # "True"})>>

\* C20: the (completed, failed) pair of the summary is a function of the
\* outcomes of the tasks alone: it is the same for every order of completion
\* and every number of workers that ends with these outcomes.
C20_CountsFromOutcomes ==
    SummaryPrinted =>
        /\ <<summary[2], summary[3]>> = FinalCounts(outcome)
        /\ <<completed, failed>> = FinalCounts(outcome)

\* a batch with a success, a returned failure and a raised exception, run by
\* two or more workers, at its summary
C20_Witness ==
    /\ SummaryPrinted
    /\ max_workers >= 2
    /\ \E i, j, k \in Tasks :
          /\ Ret(outcome[i]) = "True"
          /\ Ret(outcome[j]) = "False"
          /\ Ret(outcome[k]) = "raise"
    /\ summary[2] >= 1
    /\ summary[3] >= 2

RECURSIVE ceil_sqrt_from(_, _)
ceil_sqrt_from(c, n) == IF c * c >= n THEN c ELSE ceil_sqrt_from(c + 1, n)

ceil_sqrt(n) == ceil_sqrt_from(0, n)

\* math.ceil(a / b)
ceil_div_truncating(a, b) == a \div b

ceil_div(a, b) == (a + b - 1) \div b

\* the dict appended to frame_metadata for the frame of index idx
frame_entry_no_wrap(idx, cols, w, h) ==
    [frame |-> idx, x |-> idx * w, y |-> 0, width |-> w, height |-> h]

frame_entry(idx, cols, w, h) ==
    [frame |-> idx, x |-> (idx % cols) * w, y |-> (idx \div cols) * h,
     width |-> w, height |-> h]

\* what create_sprite_sheet returns and writes for K frames of w x h
sprite_sheet(K, w, h) ==
    IF K = 0 THEN [returned |-> "False"]
    ELSE LET cols == ceil_sqrt(K)
             rows == ceil_div(K, cols)
         IN  [returned |-> "True",
              size |-> [w |-> w * cols, h |-> h * rows],
              frames |-> [k \in 1..K |-> frame_entry(k - 1, cols, w, h)],
              frameSize |-> [w |-> w, h |-> h],
              frameCount |-> K,
              cols |-> cols,
              rows |-> rows]

create_sprite_sheet ==
    /\ script = "sprite"
    /\ sheet = NoSheet
    /\ sheet' = sprite_sheet(frames[1], frames[2], frames[3])
    /\ UNCHANGED <<script, args, pc, exit_code, error, images, config,
                   output_base, all_tasks, max_workers, submitted, status,
                   outcome, executed, touched, completed, failed, summary, fs,
                   clock, run, prev, lines, last_line, hung, frames,
                   trim_env, trim_run>>

\* frame widths and heights
FrameSides == {1, 48, 64}

InitSprite ==
    /\ script = "sprite"
    /\ args = <<>>
    /\ InitRun
    /\ trim_env = NoEnv
    /\ trim_run = NoRun
    /\ frames \in (0..MaxFrames) \X FrameSides \X FrameSides
    /\ sheet = NoSheet
    /\ fs = NoFiles
    /\ clock = 0
    /\ run = 1
    /\ prev = NoPrev

NextSprite == create_sprite_sheet

SpecSprite == InitSprite /\ [][NextSprite]_vars

\* C13: for K >= 1 frames of w x h create_sprite_sheet returns True with
\* cols the least c with c*c >= K, rows the least r with r*cols >= K, a
\* sheet of (w*cols) x (h*rows), frameCount = K and K frame entries; 10
\* frames of 64 x 64 give cols 4, rows 3 and a sheet of 256 x 192.
C13_SpriteSheetGrid ==
    (frames[1] >= 1 /\ sheet # NoSheet) =>
        /\ sheet.returned = "True"
        /\ sheet.cols * sheet.cols >= frames[1]
        /\ (sheet.cols - 1) * (sheet.cols - 1) < frames[1]
        /\ sheet.rows * sheet.cols >= frames[1]
        /\ (sheet.rows - 1) * sheet.cols < frames[1]
        /\ sheet.size = [w |-> frames[2] * sheet.cols,
                         h |-> frames[3] * sheet.rows]
        /\ sheet.frameCount = frames[1]
        /\ Len(sheet.frames) = frames[1]
        /\ frames = <<10, 64, 64>> =>
              /\ sheet.cols = 4
              /\ sheet.rows = 3
              /\ sheet.size = [w |-> 256, h |-> 192]

\* the sheet of 10 frames of 64 x 64
C13_Witness ==
    /\ frames = <<10, 64, 64>>
    /\ sheet # NoSheet
    /\ sheet.returned = "True"
    /\ sheet.frameCount = 10

CallFailures ==
    {"api_error", "open_error", "read_error", "write_error",
     "exception", "trim_failed", "step_failed"}

\* the outputs of item are on disk, whole
output_written(files, item) ==
    IF script = "trim"
    THEN \A q \in item_paths(item) \ {temp_trimmed(item), frames_dir(item)} :
            Exists(files, q) /\ files[q] = "complete"
    ELSE Exists(files, item.output_path) /\ files[item.output_path] = "complete"

C16_Returned ==
    \A i \in Tasks :
        /\ outcome[i] \in CallFailures => Ret(outcome[i]) = "False"
        /\ (outcome[i] # "none" /\ Ret(outcome[i]) = "raise")
               => outcome[i] = "raise"

C16_Return ==
    \A i \in Tasks :
        (status[i] = "running" /\ status'[i] = "finished"
            /\ Ret(outcome'[i]) = "True")
        => output_written(fs', all_tasks[i])

hang(i) ==
    /\ script = "v1"
    /\ status[i] = "running"
    /\ hung = 0
    /\ hung' = i
    /\ UNCHANGED <<script, args, pc, exit_code, error, images, config,
                   output_base, all_tasks, max_workers, submitted, status,
                   outcome, executed, touched, completed, failed, summary, fs,
                   clock, run, prev, lines, last_line, frames, sheet,
                   trim_env, trim_run>>

InitHang ==
    /\ script = "v1"
    /\ args \in {a \in Args1 :
                    ExpectedTasks(a.folder, a.config_file) <= MaxBatch}
    /\ InitRun
    /\ trim_env = NoEnv
    /\ trim_run = NoRun
    /\ frames = NoFrames
    /\ sheet = NoSheet
    /\ fs = NoFiles
    /\ clock = 0
    /\ run = 1
    /\ prev = NoPrev

NextHang ==
    \/ main_v1
    \/ submit
    \/ \E i \in Tasks : worker_take(i)
    \/ \E i \in Tasks : hang(i)
    \/ \E i \in Tasks : \E o \in Outcomes1 : animate_image(i, o)
    \/ \E i \in Tasks : collect(i)
    \/ print_summary

SpecHang ==
    /\ InitHang
    /\ [][NextHang]_vars
    /\ WF_vars(main_v1)
    /\ WF_vars(submit)
    /\ WF_vars(\E i \in Tasks : worker_take(i))
    /\ WF_vars(\E i \in Tasks : \E o \in Outcomes1 : animate_image(i, o))
    /\ WF_vars(\E i \in Tasks : collect(i))
    /\ WF_vars(print_summary)

(***************************************************************************)
(* Properties of a hanging call (SpecHang).                                *)
(***************************************************************************)
C17_Hung ==
    hung # 0 =>
        /\ status[hung] = "running"
        /\ ~SummaryPrinted
        /\ pc # "done"
        /\ max_workers = 1 =>
              \A j \in Tasks :
                  j > hung => executed[j] = 0 /\ status[j] \in {"new", "queued"}

C17_Step == hung # 0 => hung' = hung

OthersCounted == \A j \in Tasks \ {hung} : status[j] = "counted"

\* C17: once the external call of a task hangs, the task stays in its worker
\* slot for ever and the summary is never printed; with one worker no task
\* behind it is ever started; with two or more workers every other task is
\* eventually executed and counted.
C17_HangBlocksSlot ==
    /\ []C17_Hung
    /\ [][C17_Step]_vars
    /\ (hung # 0 /\ max_workers >= 2) ~> (hung # 0 /\ OthersCounted)

\* the first of four tasks hangs, the other three are counted
C17_Witness ==
    /\ hung = 1
    /\ N >= 3
    /\ max_workers >= 2
    /\ OthersCounted
    /\ pc = "collect"

(***************************************************************************)
(* Further properties of v2 (SpecRerun).                                   *)
(***************************************************************************)
\* the worker pool of v2 has been created from a --config file
PoolFromConfigFile ==
    /\ script = "v2"
    /\ pc \in {"submit", "collect"}
    /\ args.config_given

\* C21 as claimed: with --config the pool size is the value of --threads
\* when --threads was given, and the max_concurrent of the config file (10
\* if the key is absent) when it was not.
C21_ThreadsOverrideOnlyIfGiven ==
    PoolFromConfigFile =>
        max_workers = IF args.threads_given THEN args.threads
                      ELSE get_max_concurrent(args.config_file)

(***************************************************************************)
(* trim_and_loop_video, call by call.  The environment gives the mode and  *)
(* what each external step does: whether ffmpeg can be started, the exit   *)
(* codes of the stream-copy trim, of the re-encoding trim and of the later *)
(* step (frame extraction or loop concat), whether frame files are found,  *)
(* and whether saving the sprite sheet raises.  An ffmpeg call that exits  *)
(* 0 has written its output; one that exits non-zero has written nothing.  *)
(***************************************************************************)
TrimEnvs ==
    [sprite_output : BOOLEAN, ffmpeg_found : BOOLEAN,
     copy_rc : {0, 1}, reencode_rc : {0, 1}, step_rc : {0, 1},
     frames_found : BOOLEAN, save_ok : BOOLEAN]

\* "if result.returncode != 0:" after the stream-copy trim
always_reencode(rc) == TRUE

needs_reencode(rc) == rc # 0

\* the ffmpeg calls of the trim step and the exit code it ends with
trim_calls(e) ==
    IF needs_reencode(e.copy_rc) THEN <<"trim_copy", "trim_reencode">>
    ELSE <<"trim_copy">>

trim_rc(e) == IF needs_reencode(e.copy_rc) THEN e.reencode_rc ELSE e.copy_rc

Returned(calls, value, left) ==
    [calls |-> calls, returned |-> value, left |-> left]

\* the sprite branch, entered with temp_trimmed written
sprite_branch(e, calls) ==
    IF e.step_rc # 0
    THEN Returned(calls \o <<"extract">>, "False", {"temp_trimmed", "frames_dir"})
    ELSE IF ~e.frames_found
    THEN Returned(calls \o <<"extract">>, "False", {"temp_trimmed", "frames_dir"})
    ELSE IF ~e.save_ok
    THEN Returned(calls \o <<"extract">>, "False", {"temp_trimmed", "frames_dir"})
    ELSE Returned(calls \o <<"extract">>, "True", {"png", "json", "base_png"})

\* the video branch, entered with temp_trimmed written
loop_branch(e, calls) ==
    IF e.step_rc # 0
    THEN Returned(calls \o <<"loop">>, "False", {"temp_trimmed"})
    ELSE Returned(calls \o <<"loop">>, "True", {"output"})

trim_and_loop_video_run(e) ==
    IF ~e.ffmpeg_found THEN Returned(<<>>, "False", {})
    ELSE IF trim_rc(e) # 0 THEN Returned(trim_calls(e), "False", {})
    ELSE IF e.sprite_output THEN sprite_branch(e, trim_calls(e))
    ELSE loop_branch(e, trim_calls(e))

call_trim_and_loop_video ==
    /\ script = "trim_video"
    /\ trim_run = NoRun
    /\ trim_run' = trim_and_loop_video_run(trim_env)
    /\ UNCHANGED <<script, args, pc, exit_code, error, images, config,
                   output_base, all_tasks, max_workers, submitted, status,
                   outcome, executed, touched, completed, failed, summary, fs,
                   clock, run, prev, lines, last_line, hung, frames, sheet,
                   trim_env>>

InitTrimVideo ==
    /\ script = "trim_video"
    /\ args = <<>>
    /\ InitRun
    /\ trim_env \in TrimEnvs
    /\ trim_run = NoRun
    /\ frames = NoFrames
    /\ sheet = NoSheet
    /\ fs = NoFiles
    /\ clock = 0
    /\ run = 1
    /\ prev = NoPrev

NextTrimVideo == call_trim_and_loop_video

SpecTrimVideo == InitTrimVideo /\ [][NextTrimVideo]_vars

Count(calls, name) == Cardinality({k \in DOMAIN calls : calls[k] = name})

LaterSteps(calls) == Count(calls, "extract") + Count(calls, "loop")

\* C22: the re-encoding trim runs exactly when the stream-copy trim ran and
\* exited non-zero; when both exit non-zero the function returns False and
\* runs no later ffmpeg step; when one of them exits 0 the later step (frame
\* extraction or loop concat) runs exactly once.
C22_TrimFallback ==
    (trim_run # NoRun /\ trim_env.ffmpeg_found) =>
        /\ Count(trim_run.calls, "trim_copy") = 1
        /\ Count(trim_run.calls, "trim_reencode") =
              IF trim_env.copy_rc # 0 THEN 1 ELSE 0
        /\ (trim_env.copy_rc # 0 /\ trim_env.reencode_rc # 0) =>
              /\ trim_run.returned = "False"
              /\ LaterSteps(trim_run.calls) = 0
        /\ (trim_env.copy_rc = 0 \/ trim_env.reencode_rc = 0) =>
              LaterSteps(trim_run.calls) = 1

\* the stream copy failed, the re-encoding worked and the frames were
\* extracted
C22_Witness ==
    /\ trim_run # NoRun
    /\ trim_env.ffmpeg_found
    /\ trim_env.copy_rc # 0
    /\ trim_env.reencode_rc = 0
    /\ trim_run.calls = <<"trim_copy", "trim_reencode", "extract">>
    /\ trim_run.returned = "True"

\* C27 as claimed: whatever trim_and_loop_video returns, neither
\* temp_trimmed_<stem>.mp4 nor frames_<stem>/ exists afterwards.
C27_NoTemporaryLeft ==
    trim_run # NoRun =>
        trim_run.left \cap {"temp_trimmed", "frames_dir"} = {}

(***************************************************************************)
(* The counters of the result loop (SpecRunners).                          *)
(***************************************************************************)
C23_Bounds ==
    /\ 0 <= completed
    /\ 0 <= failed
    /\ completed + failed <= N
    /\ completed + failed = Cardinality(Counted)

C23_Step ==
    /\ completed' >= completed
    /\ failed' >= failed
    /\ (\E i \in Tasks : status[i] = "finished" /\ status'[i] = "counted") =>
          \/ completed' = completed + 1 /\ failed' = failed
          \/ completed' = completed /\ failed' = failed + 1

\* C23: the counters are never negative and never exceed N together; a
\* consumed future adds exactly 1 to exactly one of them, and no step makes
\* either of them smaller.
C23_CountersMonotone == []C23_Bounds /\ [][C23_Step]_vars

\* in the middle of a batch: one of each counted, tasks still uncounted
C23_Witness ==
    /\ completed >= 1
    /\ failed >= 1
    /\ completed + failed < N
    /\ pc = "collect"

(***************************************************************************)
(* The summary (SpecHang).                                                 *)
(***************************************************************************)
C24_AtSummary ==
    SummaryPrinted =>
        /\ submitted = N
        /\ Queued = {}
        /\ Running = {}
        /\ \A i \in Tasks : status[i] = "counted" /\ outcome[i] # "none"
        /\ summary = <<N, completed, failed>>

\* C24: when the summary is printed every submitted task has ended and been
\* counted, none is queued or running; and unless a call hangs (or main()
\* left before the pool) the summary is eventually printed.
C24_SummaryAfterAll ==
    /\ []C24_AtSummary
    /\ <>(SummaryPrinted \/ hung # 0 \/ error # "none")

\* the summary of a batch of two or more tasks, no call hung
C24_Witness ==
    /\ SummaryPrinted
    /\ hung = 0
    /\ N >= 2
    /\ Queued = {}
    /\ Running = {}
    /\ summary[2] + summary[3] = N

(***************************************************************************)
(* The layout of the sprite sheet (SpecSprite).                            *)
(***************************************************************************)
\* the rectangles of two frame entries have no pixel in common
Apart(a, b) ==
    \/ a.x + a.width <= b.x
    \/ b.x + b.width <= a.x
    \/ a.y + a.height <= b.y
    \/ b.y + b.height <= a.y

\* C25: for K >= 1 frames the entry of frame idx is at x = (idx mod cols) * w
\* and y = (idx div cols) * h, lies inside the sheet, and overlaps no other
\* entry; cols * rows >= K and rows <= cols.
C25_FramesTileSheet ==
    (frames[1] >= 1 /\ sheet # NoSheet) =>
        /\ \A k \in 1..frames[1] :
              /\ sheet.frames[k].frame = k - 1
              /\ sheet.frames[k].x = ((k - 1) % sheet.cols) * frames[2]
              /\ sheet.frames[k].y = ((k - 1) \div sheet.cols) * frames[3]
              /\ sheet.frames[k].width = frames[2]
              /\ sheet.frames[k].height = frames[3]
              /\ sheet.frames[k].x + frames[2] <= sheet.size.w
              /\ sheet.frames[k].y + frames[3] <= sheet.size.h
        /\ \A k, l \in 1..frames[1] :
              k # l => Apart(sheet.frames[k], sheet.frames[l])
        /\ sheet.cols * sheet.rows >= frames[1]
        /\ sheet.rows <= sheet.cols

\* 7 frames of 48 x 64: a 3 x 3 grid whose last row holds one frame
C25_Witness ==
    /\ frames = <<7, 48, 64>>
    /\ sheet # NoSheet
    /\ sheet.cols = 3
    /\ sheet.rows = 3
    /\ sheet.frames[7].x = 0
    /\ sheet.frames[7].y = 128

(***************************************************************************)
(* The precheck of process_image (SpecRerun).                              *)
(***************************************************************************)
\* the tasks are constructed and no call has started: the files are those
\* the precheck saw
AfterPrecheck ==
    /\ script = "v2"
    /\ pc # "start"
    /\ error = "none"
    /\ \A i \in Tasks : executed[i] = 0

\* C26: without --force, for each image the tasks of process_image are the
\* destinations that held no file at the precheck, the skipped ones are
\* those that held one, and tasks + skipped = the N destinations of the
\* image.
C26_PrecheckPartitions ==
    (AfterPrecheck /\ ~args.force) =>
        \A k \in 1..Len(images) :
            LET tasks == process_image(images[k], config, output_base, FALSE, fs)
                built == {tasks[i].output_path : i \in 1..Len(tasks)}
                all == AnimDestinations(images[k], config.animations, output_base)
                skipped == process_image_skipped(images[k], config.animations,
                                                 output_base, FALSE, fs)
            IN  /\ \A d \in all : d \in built <=> ~Exists(fs, d)
                /\ \A d \in all : d \in TaskPaths <=> ~Exists(fs, d)
                /\ skipped = Cardinality({d \in all : Exists(fs, d)})
                /\ Len(tasks) + skipped = total_samples(config.animations)
                /\ Len(tasks) = Cardinality(built)

\* a second run that finds one of the two destinations of its image
C26_Witness ==
    /\ AfterPrecheck
    /\ ~args.force
    /\ run >= 2
    /\ pc = "submit"
    /\ N = 1
    /\ Cardinality(Destinations) = 2
    /\ \E d \in Destinations : Exists(fs, d)

(***************************************************************************)
(* A run of v2 with nothing to generate (SpecRerun).                       *)
(***************************************************************************)
C30_Ended ==
    (script = "v2" /\ pc = "done" /\ error = "none" /\ N = 0) =>
        /\ ~SummaryPrinted
        /\ submitted = 0
        /\ lines = 0
        /\ completed = 0 /\ failed = 0

C30_Construction ==
    (script = "v2" /\ pc = "start" /\ pc' # "start" /\ error' = "none"
        /\ all_tasks' = <<>>)
    => /\ pc' = "done"
       /\ fs' = fs
       /\ summary' = <<>>

\* C30: when the construction of v2 yields no task the run ends at once: no
\* pool, no call of animate_image, no summary, and the files are those the
\* run found.
C30_NothingToGenerate == []C30_Ended /\ [][C30_Construction]_vars

\* a second run that found every destination, one of them a partial file
\* left by the first run, and ended without a summary
C30_Witness ==
    /\ script = "v2"
    /\ run >= 2
    /\ ~args.force
    /\ pc = "done"
    /\ error = "none"
    /\ N = 0
    /\ Destinations # {}
    /\ \A d \in Destinations : Exists(fs, d)
    /\ \E d \in Destinations : fs[d] = "partial"
    /\ ~SummaryPrinted

(***************************************************************************)
(* upload_to_r2.py.  The files are uploaded one after the other by the     *)
(* main thread; "submitted" is the number of loop iterations made.         *)
(***************************************************************************)
\* a file below the local folder, by its relative path
LocalFile(dirs, name) == [dirs |-> dirs, name |-> name]

\* local_path.rglob('*'), files only, in the order of enumeration
LocalTree ==
    << LocalFile(<<"idle">>, "idle.png"), LocalFile(<<"idle">>, "idle.json"),
       LocalFile(<<"attack">>, "idle.png"), LocalFile(<<>>, "base.png"),
       LocalFile(<<"attack">>, "idle.json") >>

\* f"monsters/animations/{monster_name}/{relative_path}"
r2_key(monster_name, relative_path) ==
    <<"monsters", "animations", monster_name, relative_path>>

files_to_upload(tree, monster_name) ==
    [k \in 1..Len(tree) |->
        [file_path |-> tree[k], r2_key |-> r2_key(monster_name, tree[k])]]

\* what s3_client.upload_file does
UploadOutcomes == {"ok", "client_error", "other_error"}

\* main() and upload_folder_to_r2 up to the loop
main_upload ==
    /\ pc = "start"
    /\ script = "upload"
    /\ UNCHANGED <<script, args, fs, clock, run>>
    /\ UNCHANGED others
    /\ IF ~args.argc_ok THEN leave(1, "usage")
       ELSE IF ~args.credentials THEN leave(1, "missing R2 credentials")
       ELSE IF ~args.folder_exists THEN leave(1, "local folder not found")
       ELSE IF args.tree = <<>> THEN leave(1, "no files found")
       ELSE /\ fresh_pool(files_to_upload(args.tree, args.monster_name))
            /\ pc' = "loop"
            /\ UNCHANGED <<exit_code, error, summary, prev, images, config,
                           output_base, max_workers>>

\* one iteration of "for idx, file_path in enumerate(files_to_upload, 1)":
\* the upload of the next file ends with outcome o
upload_file(o) ==
    /\ script = "upload"
    /\ pc = "loop"
    /\ submitted < N
    /\ submitted' = submitted + 1
    /\ status' = [status EXCEPT ![submitted + 1] = "counted"]
    /\ outcome' = [outcome EXCEPT ![submitted + 1] = o]
    /\ executed' = [executed EXCEPT ![submitted + 1] = @ + 1]
    /\ completed' = IF o = "ok" THEN completed + 1 ELSE completed
    /\ failed' = IF o = "ok" THEN failed ELSE failed + 1
    /\ lines' = lines + 1
    /\ last_line' = <<submitted + 1, N>>
    /\ UNCHANGED <<script, args, pc, exit_code, error, images, config,
                   output_base, all_tasks, max_workers, touched, summary, fs,
                   clock, run, prev>>
    /\ UNCHANGED others

\* the for loop is over when every file has had its iteration
upload_loop_ended_by_failure(done, total, f) == done = total \/ f > 0

upload_loop_ended(done, total, f) == done = total

\* the summary after the loop; upload_folder_to_r2 and main() return
upload_summary ==
    /\ script = "upload"
    /\ pc = "loop"
    /\ upload_loop_ended(submitted, N, failed)
    /\ summary' = <<N, completed, failed>>
    /\ pc' = "done"
    /\ exit_code' = 0
    /\ UNCHANGED <<script, args, error, images, config, output_base,
                   all_tasks, max_workers, submitted, status, outcome,
                   executed, touched, completed, failed, fs, clock, run, prev,
                   lines, last_line>>
    /\ UNCHANGED others

ArgsUpload ==
    [argc_ok : BOOLEAN, credentials : BOOLEAN, folder_exists : BOOLEAN,
     tree : {SubSeq(LocalTree, 1, k) : k \in 0..MaxFiles},
     monster_name : {"doctor"}]

InitUpload ==
    /\ script = "upload"
    /\ args \in ArgsUpload
    /\ InitRun
    /\ trim_env = NoEnv
    /\ trim_run = NoRun
    /\ frames = NoFrames
    /\ sheet = NoSheet
    /\ fs = NoFiles
    /\ clock = 0
    /\ run = 1
    /\ prev = NoPrev

NextUpload ==
    \/ main_upload
    \/ \E o \in UploadOutcomes : upload_file(o)
    \/ upload_summary

SpecUpload == InitUpload /\ [][NextUpload]_vars

\* C28: every file found is attempted exactly once, in the order of
\* enumeration; a failed upload adds 1 to failed and the loop goes on; at
\* the summary uploaded + failed = total; distinct files have distinct keys
\* monsters/animations/<monster_name>/<relative_path>.
C28_EveryFileAttempted ==
    (script = "upload" /\ pc # "start" /\ error = "none") =>
        /\ N = Len(args.tree)
        /\ \A i \in Tasks :
              /\ all_tasks[i].file_path = args.tree[i]
              /\ all_tasks[i].r2_key =
                    <<"monsters", "animations", args.monster_name, args.tree[i]>>
              /\ executed[i] = IF i <= submitted THEN 1 ELSE 0
              /\ (outcome[i] # "none") = (i <= submitted)
        /\ \A i, j \in Tasks :
              i # j => all_tasks[i].r2_key # all_tasks[j].r2_key
        /\ failed = Cardinality({i \in Tasks : outcome[i] \notin {"none", "ok"}})
        /\ completed = Cardinality({i \in Tasks : outcome[i] = "ok"})
        /\ SummaryPrinted =>
              /\ submitted = N
              /\ completed + failed = N
              /\ summary = <<N, completed, failed>>

\* three files: the first upload failed with a ClientError, the second with
\* another exception, the third went through
C28_Witness ==
    /\ script = "upload"
    /\ SummaryPrinted
    /\ N = 3
    /\ outcome = <<"client_error", "other_error", "ok">>
    /\ completed = 1
    /\ failed = 2

(***************************************************************************)
(* process_folder.py.  The images are processed one after the other, each  *)
(* by a process_image.py subprocess; "submitted" is the number of loop     *)
(* iterations begun.                                                       *)
(***************************************************************************)
\* an entry of the input folder: its name, in parts, and its suffix
FolderFile(parts, ext) == [parts |-> parts, suffix |-> ext]

\* input_folder.iterdir()
FolderEntries ==
    << FolderFile(<<"doctor">>, ".png"), FolderFile(<<"knight">>, ".JPG"),
       FolderFile(<<"wizard">>, ".jpeg"),
       FolderFile(<<"doctor", "-", "greenscreen">>, ".png"),
       FolderFile(<<"nobg", "_", "knight">>, ".jpg"),
       FolderFile(<<"notes">>, ".txt") >>

\* word in f.name
name_contains(f, word) == \E k \in DOMAIN f.parts : f.parts[k] = word

\* the condition of the list comprehension
is_image(f) ==
    /\ lower(f.suffix) \in image_extensions
    /\ ~name_contains(f, "greenscreen")
    /\ ~name_contains(f, "nobg")

\* "if args.limit: images = images[:args.limit]"
limit_images(imgs, limit) ==
    IF limit # 0
    THEN SubSeq(imgs, 1, IF limit < Len(imgs) THEN limit ELSE Len(imgs))
    ELSE imgs

\* img.parent / f"{base_name}-greenscreen.png"
greenscreen_file(img) ==
    FolderFile(img.parts \o <<"-", "greenscreen">>, ".png")

folder_images(listing, limit) ==
    LET imgs == limit_images(SelectSeq(listing, is_image), limit)
    IN  [k \in 1..Len(imgs) |->
            [img |-> imgs[k], greenscreen_file |-> greenscreen_file(imgs[k])]]

\* what one iteration meets: the exit code of the subprocess, whether the
\* greenscreen file is there, and whether Path.rename moves it or raises
FolderOutcomes ==
    {"moved", "rename_raises", "no_greenscreen", "returncode_nonzero"}

\* main() up to the loop
main_folder ==
    /\ pc = "start"
    /\ script = "folder"
    /\ UNCHANGED <<script, args, fs, clock, run>>
    /\ UNCHANGED others
    /\ IF ~args.folder_exists THEN leave(1, "input folder not found")
       ELSE /\ fresh_pool(folder_images(args.listing, args.limit))
            /\ pc' = "loop"
            /\ UNCHANGED <<exit_code, error, summary, prev, images, config,
                           output_base, max_workers>>

\* one iteration of "for idx, img in enumerate(images, 1)" that meets o.
\* Nothing in main() catches what greenscreen_file.rename(dest) raises: the
\* exception ends the script before either counter is touched.
process_one_image(o) ==
    /\ script = "folder"
    /\ pc = "loop"
    /\ submitted < N
    /\ submitted' = submitted + 1
    /\ status' = [status EXCEPT ![submitted + 1] =
                     IF o = "rename_raises" THEN "raised" ELSE "counted"]
    /\ outcome' = [outcome EXCEPT ![submitted + 1] = o]
    /\ executed' = [executed EXCEPT ![submitted + 1] = @ + 1]
    /\ completed' = IF o = "moved" THEN completed + 1 ELSE completed
    /\ failed' = IF o \in {"no_greenscreen", "returncode_nonzero"}
                 THEN failed + 1 ELSE failed
    /\ lines' = lines + 1
    /\ last_line' = <<submitted + 1, N>>
    /\ pc' = IF o = "rename_raises" THEN "done" ELSE pc
    /\ exit_code' = IF o = "rename_raises" THEN 1 ELSE exit_code
    /\ error' = IF o = "rename_raises" THEN "raise" ELSE error
    /\ UNCHANGED <<script, args, images, config, output_base, all_tasks,
                   max_workers, touched, summary, fs, clock, run, prev>>
    /\ UNCHANGED others

\* the lines after the loop: "Total: .. | Success: .. | Failed: .."
folder_summary ==
    /\ script = "folder"
    /\ pc = "loop"
    /\ submitted = N
    /\ summary' = <<N, completed, failed>>
    /\ pc' = "done"
    /\ exit_code' = 0
    /\ UNCHANGED <<script, args, error, images, config, output_base,
                   all_tasks, max_workers, submitted, status, outcome,
                   executed, touched, completed, failed, fs, clock, run, prev,
                   lines, last_line>>
    /\ UNCHANGED others

\* --limit as given on the command line; 0 stands for the option left out
FolderLimits == {0, 1, 2}

ArgsFolder ==
    [folder_exists : BOOLEAN,
     listing : {SubSeq(FolderEntries, a, b) :
                   a \in 1..Len(FolderEntries),
                   b \in 0..Len(FolderEntries)} \cap
               UNION {[1..n -> {FolderEntries[k] : k \in DOMAIN FolderEntries}] :
                         n \in 0..MaxFiles},
     limit : FolderLimits]

InitFolder ==
    /\ script = "folder"
    /\ args \in ArgsFolder
    /\ InitRun
    /\ trim_env = NoEnv
    /\ trim_run = NoRun
    /\ frames = NoFrames
    /\ sheet = NoSheet
    /\ fs = NoFiles
    /\ clock = 0
    /\ run = 1
    /\ prev = NoPrev

NextFolder ==
    \/ main_folder
    \/ \E o \in FolderOutcomes : process_one_image(o)
    \/ folder_summary

SpecFolder == InitFolder /\ [][NextFolder]_vars

\* C29: an image is a success only if its subprocess exited with 0 and its
\* <stem>-greenscreen.png was there and was moved; every other image is
\* counted as failed and the loop goes on to the next one, so that the
\* script ends with success_count + failed_count = number of selected
\* images; no selected name contains 'greenscreen' or 'nobg'.
C29_EveryImageCounted ==
    (script = "folder" /\ pc # "start" /\ error # "input folder not found") =>
        /\ \A i \in Tasks :
              /\ ~name_contains(all_tasks[i].img, "greenscreen")
              /\ ~name_contains(all_tasks[i].img, "nobg")
        /\ completed =
              Cardinality({i \in 1..submitted : outcome[i] = "moved"})
        /\ failed =
              Cardinality({i \in 1..submitted : outcome[i] # "moved"})
        /\ pc = "done" => (submitted = N /\ completed + failed = N)

====
